---- MODULE Spec2Model ----
(***************************************************************************)
(* Account registry of BaiduPCS-Py (baidupcs_py/app/account.py):           *)
(* Account, AccountManager (the Registry), load_data / save (Persistence)  *)
(* and _compat_v0_5_9 (Migration).                                         *)
(***************************************************************************)
EXTENDS Integers, Sequences, FiniteSets, TLC

(***************************************************************************)
(* Bounds                                                                  *)
(***************************************************************************)
\* user ids range over 0..MaxId (PcsUser.user_id is an int; 0 is an int)
MaxId == 1
\* working directories have at most MaxDepth segments
MaxDepth == 1
\* a behaviour performs at most MaxSteps operations
MaxSteps == 3

Ids == 0 .. MaxId

(***************************************************************************)
(* Python values                                                           *)
(***************************************************************************)
\* Optional[int] None (self._who = None, user_id = None)
None == -1
\* Optional[str] / Optional[PathLike] None (encrypt_key, salt, data_path)
NoneStr == "None"

\* truth value of an Optional[int]: None and 0 are both falsy
Truthy(x) == x # None /\ x # 0
\* Python `a or b` on Optional[int]
OrElse(a, b) == IF Truthy(a) THEN a ELSE b
\* Python `a or b` on Optional[PathLike] (paths here are non-empty)
OrElsePath(a, b) == IF a # NoneStr THEN a ELSE b

(***************************************************************************)
(* Paths of the local file system                                          *)
(***************************************************************************)
TildePath == "~/a"
HomePath == "/h/a"
ACCOUNT_DATA_PATH == "/d"
\* the paths the caller passes to load_data and save
Paths == {TildePath, ACCOUNT_DATA_PATH}
\* the files that can exist: a "~/a" relative to the cwd never does
Files == {HomePath, ACCOUNT_DATA_PATH}

\* Path(p).expanduser()
expanduser(p) == IF p = TildePath THEN HomePath ELSE p

(***************************************************************************)
(* PcsUser and Account                                                     *)
(***************************************************************************)
\* PcsUser: products is "dict" in files written before v0.5.9, "list" now
PcsUser(user_id, products, auth, rev) ==
    [user_id |-> user_id, products |-> products, auth |-> auth, rev |-> rev]

\* remote paths are strings: sequences of the characters "/", "a", "."
Root == <<"/">>

\* Account(user=user): pwd "/", encrypt_key None, salt None
Account(user) ==
    [user |-> user, pwd |-> Root, encrypt_key |-> NoneStr, salt |-> NoneStr]

(***************************************************************************)
(* Dict[int, Account]: keys in insertion order, and the value of each key  *)
(***************************************************************************)
EmptyDict == [keys |-> <<>>, at |-> [k \in {} |-> 0]]

KeySet(d) == {d.keys[i] : i \in 1 .. Len(d.keys)}

Has(d, k) == k \in KeySet(d)

\* d[k] = v
DictSet(d, k, v) ==
    [keys |-> IF Has(d, k) THEN d.keys ELSE Append(d.keys, k),
     at |-> [x \in KeySet(d) \cup {k} |-> IF x = k THEN v ELSE d.at[x]]]

\* del d[k]
DictDel(d, k) ==
    [keys |-> SelectSeq(d.keys, LAMBDA x : x # k),
     at |-> [x \in KeySet(d) \ {k} |-> d.at[x]]]

\* AccountManager.__init__
AccountManager(data_path) ==
    [accounts |-> EmptyDict, who |-> None, data_path |-> data_path]

(***************************************************************************)
(* join_path (baidupcs_py.common.path): posix join and normalisation       *)
(***************************************************************************)
RECURSIVE SplitFrom(_, _, _)
\* the "/"-separated segments of string s from position i on, cur being the
\* segment read so far
SplitFrom(s, i, cur) ==
    IF i > Len(s) THEN (IF cur = <<>> THEN <<>> ELSE <<cur>>)
    ELSE IF s[i] = "/"
         THEN (IF cur = <<>> THEN <<>> ELSE <<cur>>) \o SplitFrom(s, i + 1, <<>>)
         ELSE SplitFrom(s, i + 1, Append(cur, s[i]))

Segments(s) == SplitFrom(s, 1, <<>>)

RECURSIVE Normalize(_, _)
\* resolve "." and ".." over the segments segs, acc being the stack so far
Normalize(segs, acc) ==
    IF segs = <<>> THEN acc
    ELSE IF Head(segs) = <<".">> THEN Normalize(Tail(segs), acc)
    ELSE IF Head(segs) = <<".", ".">>
         THEN Normalize(Tail(segs),
                        IF acc = <<>> THEN acc ELSE SubSeq(acc, 1, Len(acc) - 1))
         ELSE Normalize(Tail(segs), Append(acc, Head(segs)))

RECURSIVE Format(_)
\* the absolute path string of a stack of segments
Format(segs) ==
    IF segs = <<>> THEN <<>>
    ELSE <<"/">> \o Head(segs) \o Format(Tail(segs))

IsAbs(s) == s # <<>> /\ s[1] = "/"

join_path(source, dest) ==
    LET segs == IF IsAbs(dest) THEN Segments(dest)
                ELSE Segments(source) \o Segments(dest)
        norm == Normalize(segs, <<>>)
        path == IF norm = <<>> THEN Root ELSE Format(norm)
    IN IF IsAbs(source) \/ IsAbs(dest) THEN path ELSE Tail(path)

(***************************************************************************)
(* Identity client (baidupcs_py.baidupcs.BaiduPCSApi)                      *)
(***************************************************************************)
\* what one call of api.user_info() does: fail, answer the record as it
\* was at the last fetch, or answer a newer revision of it
Answers == {"fail", "same", "newer"}

\* the record user_info() answers for the account it was derived from: the
\* same identifier, auth material filled in, products in the current shape
user_info(account, answer) ==
    PcsUser(account.user.user_id, "list", TRUE,
            IF answer = "newer" THEN account.user.rev + 1 ELSE account.user.rev)

(***************************************************************************)
(* Registry operations.  Each yields the Registry afterwards, the result   *)
(* ("ok" or the error raised), the value returned (an Optional as a        *)
(* sequence of length <= 1), the exception raised inside it ("ok" if      *)
(* none) and the keys user_info() was called for, in call order.           *)
(***************************************************************************)
Outcome(self, result, ret, fetches) ==
    [am |-> self, result |-> result, ret |-> ret, raised |-> result,
     fetches |-> fetches]

\* set_encrypt_key writing the key and the salt into every account
set_encrypt_key_All(self, encrypt_key, salt) ==
    IF ~Truthy(self.who) THEN Outcome(self, "NoActiveIdentity", <<>>, <<>>)
    ELSE IF ~Has(self.accounts, self.who) THEN Outcome(self, "NoActiveIdentity", <<>>, <<>>)
    ELSE Outcome([self EXCEPT !.accounts.at =
                      [k \in DOMAIN @ |->
                          [@[k] EXCEPT !.encrypt_key = encrypt_key, !.salt = salt]]],
                 "ok", <<>>, <<>>)

\* AccountManager.set_encrypt_key
set_encrypt_key(self, encrypt_key, salt) ==
    IF ~Truthy(self.who) THEN Outcome(self, "NoActiveIdentity", <<>>, <<>>)
    ELSE IF ~Has(self.accounts, self.who) THEN Outcome(self, "NoActiveIdentity", <<>>, <<>>)
    ELSE LET account == [self.accounts.at[self.who] EXCEPT
                             !.encrypt_key = encrypt_key, !.salt = salt]
         IN Outcome([self EXCEPT !.accounts = DictSet(@, self.who, account)],
                    "ok", <<>>, <<>>)

\* cd storing its argument as it is, without join_path
cd_Raw(self, remotedir) ==
    IF ~Truthy(self.who) THEN Outcome(self, "NoActiveIdentity", <<>>, <<>>)
    ELSE IF ~Has(self.accounts, self.who) THEN Outcome(self, "NoActiveIdentity", <<>>, <<>>)
    ELSE Outcome([self EXCEPT !.accounts =
                      DictSet(@, self.who,
                              [self.accounts.at[self.who] EXCEPT !.pwd = remotedir])],
                 "ok", <<>>, <<>>)

\* AccountManager.cd
cd(self, remotedir) ==
    IF ~Truthy(self.who) THEN Outcome(self, "NoActiveIdentity", <<>>, <<>>)
    ELSE IF ~Has(self.accounts, self.who) THEN Outcome(self, "NoActiveIdentity", <<>>, <<>>)
    ELSE LET old == self.accounts.at[self.who]
             account == [old EXCEPT !.pwd = join_path(old.pwd, remotedir)]
         IN Outcome([self EXCEPT !.accounts = DictSet(@, self.who, account)],
                    "ok", <<>>, <<>>)

\* AccountManager.pwd
pwd(self) ==
    IF ~Truthy(self.who) THEN Outcome(self, "NoActiveIdentity", <<>>, <<>>)
    ELSE IF ~Has(self.accounts, self.who) THEN Outcome(self, "NoActiveIdentity", <<>>, <<>>)
    ELSE Outcome(self, "ok", <<self.accounts.at[self.who].pwd>>, <<>>)

\* AccountManager.who
who(self, user_id) ==
    LET uid == OrElse(user_id, self.who)
    IN IF Truthy(uid)
       THEN Outcome(self, "ok",
                    IF Has(self.accounts, uid) THEN <<self.accounts.at[uid]>> ELSE <<>>,
                    <<>>)
       ELSE Outcome(self, "ok", <<>>, <<>>)

\* update storing the fetched record under the id given whenever one is
update_UnderArg(self, user_id, answer) ==
    LET uid == OrElse(user_id, self.who)
    IN IF ~Truthy(uid) THEN Outcome(self, "ok", <<>>, <<>>)
       ELSE IF ~Has(self.accounts, uid) THEN Outcome(self, "ok", <<>>, <<>>)
       ELSE LET account == self.accounts.at[uid]
            IN IF ~account.user.auth THEN Outcome(self, "MissingAuth", <<>>, <<>>)
               ELSE IF answer = "fail" THEN Outcome(self, "NetworkError", <<>>, <<uid>>)
               ELSE LET user == user_info(account, answer)
                        new == [account EXCEPT !.user = user]
                        key == IF user_id # None THEN user_id ELSE uid
                    IN Outcome([self EXCEPT !.accounts = DictSet(@, key, new)],
                               "ok", <<>>, <<uid>>)

\* update catching the failure of user_info()
update_Swallows(self, user_id, answer) ==
    LET uid == OrElse(user_id, self.who)
    IN IF ~Truthy(uid) THEN Outcome(self, "ok", <<>>, <<>>)
       ELSE IF ~Has(self.accounts, uid) THEN Outcome(self, "ok", <<>>, <<>>)
       ELSE LET account == self.accounts.at[uid]
            IN IF ~account.user.auth THEN Outcome(self, "MissingAuth", <<>>, <<>>)
               ELSE IF answer = "fail"
                    THEN [Outcome(self, "ok", <<>>, <<uid>>) EXCEPT
                              !.raised = "NetworkError"]
               ELSE LET user == user_info(account, answer)
                        new == [account EXCEPT !.user = user]
                    IN Outcome([self EXCEPT !.accounts = DictSet(@, uid, new)],
                               "ok", <<>>, <<uid>>)

\* AccountManager.update; answer is what the identity client does if called
update(self, user_id, answer) ==
    LET uid == OrElse(user_id, self.who)
    IN IF ~Truthy(uid) THEN Outcome(self, "ok", <<>>, <<>>)
       ELSE IF ~Has(self.accounts, uid) THEN Outcome(self, "ok", <<>>, <<>>)
       ELSE LET account == self.accounts.at[uid]
            IN IF ~account.user.auth THEN Outcome(self, "MissingAuth", <<>>, <<>>)
               ELSE IF answer = "fail" THEN Outcome(self, "NetworkError", <<>>, <<uid>>)
               ELSE LET user == user_info(account, answer)
                        new == [account EXCEPT !.user = user]
                    IN Outcome([self EXCEPT !.accounts = DictSet(@, uid, new)],
                               "ok", <<>>, <<uid>>)

\* su without the assert
su_NoCheck(self, user_id) ==
    Outcome([self EXCEPT !.who = user_id], "ok", <<>>, <<>>)

\* AccountManager.su
su(self, user_id) ==
    IF ~Has(self.accounts, user_id) THEN Outcome(self, "UnknownIdentity", <<>>, <<>>)
    ELSE Outcome([self EXCEPT !.who = user_id], "ok", <<>>, <<>>)

\* useradd keeping the session state of an account registered before
useradd_Keeps(self, user) ==
    Outcome([self EXCEPT !.accounts =
                 DictSet(@, user.user_id,
                         IF Has(self.accounts, user.user_id)
                         THEN [self.accounts.at[user.user_id] EXCEPT !.user = user]
                         ELSE Account(user))],
            "ok", <<>>, <<>>)

\* AccountManager.useradd
useradd(self, user) ==
    Outcome([self EXCEPT !.accounts = DictSet(@, user.user_id, Account(user))],
            "ok", <<>>, <<>>)

\* userdel deleting the key without the membership test
userdel_NoGuard(self, user_id) ==
    IF ~Has(self.accounts, user_id) THEN Outcome(self, "KeyError", <<>>, <<>>)
    ELSE Outcome([self EXCEPT !.accounts = DictDel(self.accounts, user_id),
                              !.who = IF user_id = self.who THEN None ELSE self.who],
                 "ok", <<>>, <<>>)

\* userdel without the reset of self._who
userdel_KeepsWho(self, user_id) ==
    LET accounts == IF Has(self.accounts, user_id)
                    THEN DictDel(self.accounts, user_id) ELSE self.accounts
    IN Outcome([self EXCEPT !.accounts = accounts], "ok", <<>>, <<>>)

\* AccountManager.userdel
userdel(self, user_id) ==
    LET accounts == IF Has(self.accounts, user_id)
                    THEN DictDel(self.accounts, user_id) ELSE self.accounts
        w == IF user_id = self.who THEN None ELSE self.who
    IN Outcome([self EXCEPT !.accounts = accounts, !.who = w], "ok", <<>>, <<>>)

(***************************************************************************)
(* Persistence: the files of the disk, pickle.dump and pickle.load         *)
(***************************************************************************)
\* a file is missing, holds bytes pickle.load rejects, or holds a pickled
\* AccountManager
Missing == [kind |-> "missing", am |-> AccountManager(NoneStr)]
Garbage == [kind |-> "garbage", am |-> AccountManager(NoneStr)]
\* a pickle that leaves out self._who
Pickled_NoWho(self) == [kind |-> "pickle", am |-> [self EXCEPT !.who = None]]

Pickled(self) == [kind |-> "pickle", am |-> self]

\* Path(p).exists(): the path as written, without user expansion
exists(d, p) == p \in Files /\ d[p].kind # "missing"

\* what the file system does on a write: complete it, refuse it (the file
\* is left as it was), or fail part-way (the file is left truncated)
IOs == {"ok", "denied", "partial"}

\* wrote is the file a completed write went to, NoneStr if there was none
SaveOutcome(d, result, saves, wrote) ==
    [disk |-> d, result |-> result, raised |-> result, saves |-> saves,
     wrote |-> wrote]

\* save writing to the stored path whatever its argument is
save_IgnoresArg(self, d, data_path, io) ==
    IF self.data_path = NoneStr THEN SaveOutcome(d, "NoStoragePath", 0, NoneStr)
    ELSE LET target == expanduser(self.data_path)
         IN IF io = "denied" THEN SaveOutcome(d, "IOError", 1, NoneStr)
            ELSE IF io = "partial"
                 THEN SaveOutcome([d EXCEPT ![target] = Garbage], "IOError", 1, NoneStr)
                 ELSE SaveOutcome([d EXCEPT ![target] = Pickled(self)], "ok", 1, target)

\* save reading the file first and keeping the accounts it holds that the
\* process does not have
save_Merging(self, d, data_path, io) ==
    LET path == OrElsePath(data_path, self.data_path)
    IN IF path = NoneStr THEN SaveOutcome(d, "NoStoragePath", 0, NoneStr)
       ELSE LET target == expanduser(path)
                held == IF d[target].kind = "pickle" THEN d[target].am.accounts
                        ELSE EmptyDict
                merged ==
                    [keys |-> self.accounts.keys
                                  \o SelectSeq(held.keys,
                                               LAMBDA k : ~Has(self.accounts, k)),
                     at |-> [k \in KeySet(held) \cup KeySet(self.accounts) |->
                                IF Has(self.accounts, k) THEN self.accounts.at[k]
                                ELSE held.at[k]]]
            IN IF io = "denied" THEN SaveOutcome(d, "IOError", 1, NoneStr)
               ELSE IF io = "partial"
                    THEN SaveOutcome([d EXCEPT ![target] = Garbage], "IOError", 1, NoneStr)
                    ELSE SaveOutcome([d EXCEPT ![target] =
                                          Pickled([self EXCEPT !.accounts = merged])],
                                     "ok", 1, target)

\* save catching the failure of the write
save_Swallows(self, d, data_path, io) ==
    LET path == OrElsePath(data_path, self.data_path)
    IN IF path = NoneStr THEN SaveOutcome(d, "NoStoragePath", 0, NoneStr)
       ELSE LET target == expanduser(path)
            IN IF io = "denied"
               THEN [SaveOutcome(d, "ok", 1, NoneStr) EXCEPT !.raised = "IOError"]
               ELSE IF io = "partial"
                    THEN [SaveOutcome([d EXCEPT ![target] = Garbage], "ok", 1, NoneStr)
                              EXCEPT !.raised = "IOError"]
                    ELSE SaveOutcome([d EXCEPT ![target] = Pickled(self)], "ok", 1, target)

\* AccountManager.save
save(self, d, data_path, io) ==
    LET path == OrElsePath(data_path, self.data_path)
    IN IF path = NoneStr THEN SaveOutcome(d, "NoStoragePath", 0, NoneStr)
       ELSE LET target == expanduser(path)
            IN IF io = "denied" THEN SaveOutcome(d, "IOError", 1, NoneStr)
               ELSE IF io = "partial"
                    THEN SaveOutcome([d EXCEPT ![target] = Garbage], "IOError", 1, NoneStr)
                    ELSE SaveOutcome([d EXCEPT ![target] = Pickled(self)], "ok", 1, target)

(***************************************************************************)
(* Migration                                                               *)
(***************************************************************************)
RECURSIVE compat_loop(_, _, _, _, _)
\* the loop of _compat_v0_5_9 over am._accounts.items(), from the i-th key
\* on; the identity client fails at the net-th call made to it (never, if
\* fewer calls are made) and answers a newer record at the others
compat_loop(self, keys, i, net, fetches) ==
    IF i > Len(keys) THEN Outcome(self, "ok", <<>>, fetches)
    ELSE LET user_id == keys[i]
             account == self.accounts.at[user_id]
         IN IF account.user.products = "dict"
            THEN LET r == update(self, user_id,
                                 IF Len(fetches) + 1 = net THEN "fail" ELSE "newer")
                 IN IF r.result # "ok"
                    THEN Outcome(r.am, r.result, <<>>, fetches \o r.fetches)
                    ELSE compat_loop(r.am, keys, i + 1, net, fetches \o r.fetches)
            ELSE compat_loop(self, keys, i + 1, net, fetches)

LoadOutcome(self, d, result, raised, fetches, saves, wrote) ==
    [am |-> self, disk |-> d, result |-> result, raised |-> raised,
     fetches |-> fetches, saves |-> saves, wrote |-> wrote]

\* the end of _compat_v0_5_9 setting the default path whatever the stored
\* path is
compat_save_Always(scan, d, io) ==
    IF scan.result # "ok"
    THEN LoadOutcome(scan.am, d, scan.result, scan.result, scan.fetches, 0, NoneStr)
    ELSE LET filled == [scan.am EXCEPT !.data_path = ACCOUNT_DATA_PATH]
             s == save(filled, d, NoneStr, io)
         IN LoadOutcome(filled, s.disk, s.result, s.result, scan.fetches, s.saves,
                        s.wrote)

\* the end of _compat_v0_5_9, scan being what its loop gave: the backfill of
\* the storage path and the unconditional am.save()
compat_save(scan, d, io) ==
    IF scan.result # "ok"
    THEN LoadOutcome(scan.am, d, scan.result, scan.result, scan.fetches, 0, NoneStr)
    ELSE LET data_path == scan.am.data_path
             filled == IF data_path = NoneStr \/ ~exists(d, data_path)
                       THEN [scan.am EXCEPT !.data_path = ACCOUNT_DATA_PATH]
                       ELSE scan.am
             s == save(filled, d, NoneStr, io)
         IN LoadOutcome(filled, s.disk, s.result, s.result, scan.fetches, s.saves,
                        s.wrote)

\* _compat_v0_5_9 (called through _compat_account_manager): result is "ok",
\* or the exception that ends it
_compat_v0_5_9(self, d, net, io) ==
    compat_save(compat_loop(self, self.accounts.keys, 1, net, <<>>), d, io)

\* load_data without the except clause
load_data_NoCatch(d, data_path, net, io) ==
    LET path == expanduser(data_path)
    IN IF d[path].kind # "pickle"
       THEN LET e == IF d[path].kind = "missing" THEN "FileNotFoundError"
                     ELSE "UnpicklingError"
            IN LoadOutcome(AccountManager(NoneStr), d, e, e, <<>>, 0, NoneStr)
       ELSE _compat_v0_5_9(d[path].am, d, net, io)

\* the except clause of load_data, c being what the try block gave: an
\* exception is swallowed and answered with a new AccountManager on path
except_Exception(c, path) ==
    IF c.result # "ok"
    THEN LoadOutcome(AccountManager(path), c.disk, "ok", c.raised, c.fetches,
                     c.saves, c.wrote)
    ELSE c

\* AccountManager.load_data: every exception of the try block is swallowed
\* and answered with a new AccountManager on the expanded path
load_data(d, data_path, net, io) ==
    LET path == expanduser(data_path)
    IN IF d[path].kind # "pickle"
       THEN LoadOutcome(AccountManager(path), d, "ok",
                        IF d[path].kind = "missing" THEN "FileNotFoundError"
                        ELSE "UnpicklingError", <<>>, 0, NoneStr)
       ELSE except_Exception(_compat_v0_5_9(d[path].am, d, net, io), path)

(***************************************************************************)
(* Inputs                                                                  *)
(***************************************************************************)
Keys == {NoneStr, "k"}
Salts == {NoneStr, "s"}
\* arguments of cd: "/", "a", "..", "", "/a", "a/.."
Dirs == {Root, <<"a">>, <<".", ".">>, <<>>, <<"/", "a">>, <<"a", "/", ".", ".">>}
\* the records the identity client hands to useradd
NewUsers == {PcsUser(i, "list", TRUE, 0) : i \in Ids}

\* the account a file of an earlier run holds for user k: the last user
\* has left the root directory and set an encryption key
OldAccount(k, products) ==
    IF k = MaxId
    THEN [Account(PcsUser(k, products, TRUE, 0)) EXCEPT
              !.pwd = <<"/", "a">>, !.encrypt_key = "k", !.salt = "s"]
    ELSE Account(PcsUser(k, products, TRUE, 0))

\* which accounts of such a file are legacy-shaped: none, all, the first,
\* the last
OldShapes ==
    {[k \in Ids |-> "list"], [k \in Ids |-> "dict"],
     [k \in Ids |-> IF k = 0 THEN "dict" ELSE "list"],
     [k \in Ids |-> IF k = MaxId THEN "dict" ELSE "list"]}

\* files earlier runs of the program left behind: every id registered, in
\* ascending order
OldFiles ==
    {[kind |-> "pickle",
      am |-> [accounts |-> [keys |-> [i \in 1 .. MaxId + 1 |-> i - 1],
                            at |-> [k \in Ids |-> OldAccount(k, shape[k])]],
              who |-> x.who, data_path |-> x.data_path]] :
        shape \in OldShapes,
        x \in {[who |-> None, data_path |-> NoneStr],
               [who |-> 0, data_path |-> HomePath],
               [who |-> MaxId, data_path |-> HomePath],
               [who |-> MaxId, data_path |-> NoneStr]}}

\* the keys of the legacy-shaped accounts of a file
LegacyKeys(f) ==
    {k \in KeySet(f.am.accounts) : f.am.accounts.at[k].user.products = "dict"}

(***************************************************************************)
(* State                                                                   *)
(***************************************************************************)
VARIABLES
    am,      \* the AccountManager of the process
    disk,    \* the file at each path of Files
    last,    \* the last operation: its arguments and what it gave
    steps,   \* number of operations performed
    procs,   \* concurrent processes: the position and AccountManager of each
    history  \* what the concurrent processes did on the disk, in order

vars == <<am, disk, last, steps, procs, history>>

\* the record of an operation; am, disk and wrote_before are the
\* AccountManager and the disk it started from and the file the operation
\* before it wrote
Did(op, args, result, ret, raised, fetches, saves, wrote) ==
    [op |-> op, args |-> args, result |-> result, ret |-> ret,
     raised |-> raised, fetches |-> fetches, saves |-> saves, wrote |-> wrote,
     am |-> am, disk |-> disk, wrote_before |-> last.wrote]

Init ==
    /\ am = AccountManager(NoneStr)
    /\ \E f \in {Missing, Garbage} \cup OldFiles :
           disk = [p \in Files |-> IF p = HomePath THEN f ELSE Missing]
    /\ last = [op |-> "init", args |-> <<>>, result |-> "ok", ret |-> <<>>,
               raised |-> "ok", fetches |-> <<>>, saves |-> 0, wrote |-> NoneStr,
               am |-> am, disk |-> disk, wrote_before |-> NoneStr]
    /\ steps = 0
    /\ procs = <<>>
    /\ history = <<>>

\* a Registry operation: r is its Outcome
Apply(op, args, r) ==
    /\ steps < MaxSteps
    /\ steps' = steps + 1
    /\ am' = r.am
    /\ last' = Did(op, args, r.result, r.ret, r.raised, r.fetches, 0, NoneStr)
    /\ UNCHANGED <<disk, procs, history>>

SetEncryptKey ==
    \E k \in Keys, s \in Salts :
        Apply("set_encrypt_key", [encrypt_key |-> k, salt |-> s],
              set_encrypt_key(am, k, s))

Cd ==
    \E dir \in Dirs :
        LET r == cd(am, dir)
        IN /\ r.result = "ok" =>
                  Len(Segments(r.am.accounts.at[am.who].pwd)) <= MaxDepth
           /\ Apply("cd", [remotedir |-> dir], r)

Pwd == Apply("pwd", <<>>, pwd(am))

Who ==
    \E u \in Ids \cup {None} : Apply("who", [user_id |-> u], who(am, u))

Update ==
    \E u \in Ids \cup {None}, answer \in Answers :
        Apply("update", [user_id |-> u], update(am, u, answer))

Su == \E u \in Ids : Apply("su", [user_id |-> u], su(am, u))

Useradd == \E user \in NewUsers : Apply("useradd", [user |-> user], useradd(am, user))

Userdel == \E u \in Ids : Apply("userdel", [user_id |-> u], userdel(am, u))

Save ==
    \E path \in Paths \cup {NoneStr}, io \in IOs :
        LET s == save(am, disk, path, io)
        IN /\ steps < MaxSteps
           /\ steps' = steps + 1
           /\ disk' = s.disk
           /\ last' = Did("save", [data_path |-> path], s.result, <<>>, s.raised,
                          <<>>, s.saves, s.wrote)
           /\ UNCHANGED <<am, procs, history>>

\* load_data called: l is what it gave
Load(args, l) ==
    /\ steps < MaxSteps
    /\ steps' = steps + 1
    /\ am' = l.am
    /\ disk' = l.disk
    /\ last' = Did("load_data", args, l.result, <<l.am>>, l.raised, l.fetches,
                   l.saves, l.wrote)
    /\ UNCHANGED <<procs, history>>

LoadData ==
    \E path \in Paths :
    \E net \in 0 .. Cardinality(LegacyKeys(disk[expanduser(path)])),
       io \in IF disk[expanduser(path)].kind = "pickle" THEN IOs ELSE {"ok"} :
        Load([data_path |-> path, net |-> net, io |-> io],
             load_data(disk, path, net, io))

Next ==
    \/ SetEncryptKey
    \/ Cd
    \/ Pwd
    \/ Who
    \/ Update
    \/ Su
    \/ Useradd
    \/ Userdel
    \/ Save
    \/ LoadData

Spec == Init /\ [][Next]_vars

(***************************************************************************)
(* Two processes on one storage path: each runs load_data(RacePath),       *)
(* useradd of its own user and save(RacePath); nothing but the file system *)
(* is shared and nothing orders their steps                                *)
(***************************************************************************)
Procs == {1, 2}

RacePath == TildePath

\* the user process p adds: an id no file of an earlier run holds
RaceUser(p) == PcsUser(MaxId + p, "list", TRUE, 0)

InitRace ==
    /\ am = AccountManager(NoneStr)
    /\ \E f \in {Missing, Garbage} \cup OldFiles :
           disk = [p \in Files |-> IF p = HomePath THEN f ELSE Missing]
    /\ last = [op |-> "init", args |-> <<>>, result |-> "ok", ret |-> <<>>,
               raised |-> "ok", fetches |-> <<>>, saves |-> 0, wrote |-> NoneStr,
               am |-> am, disk |-> disk, wrote_before |-> NoneStr]
    /\ steps = 0
    /\ procs = [p \in Procs |-> [pc |-> "load_data", am |-> AccountManager(NoneStr)]]
    /\ history = <<>>

\* process p is at op and performs it: self is its AccountManager and d the
\* disk afterwards, result what the operation gave
RaceStep(p, op, next, self, d, result) ==
    /\ procs[p].pc = op
    /\ procs' = [procs EXCEPT ![p] = [pc |-> next, am |-> self]]
    /\ disk' = d
    /\ history' = Append(history, [proc |-> p, op |-> op, result |-> result])
    /\ UNCHANGED <<am, last, steps>>

\* what load_data gave process p
RaceLoaded(p, l) == RaceStep(p, "load_data", "useradd", l.am, l.disk, l.raised)

RaceLoad(p) ==
    \E net \in 0 .. Cardinality(LegacyKeys(disk[expanduser(RacePath)])),
       io \in IF disk[expanduser(RacePath)].kind = "pickle" THEN IOs ELSE {"ok"} :
        RaceLoaded(p, load_data(disk, RacePath, net, io))

RaceUseradd(p) ==
    RaceStep(p, "useradd", "save", useradd(procs[p].am, RaceUser(p)).am, disk, "ok")

\* what save gave process p
RaceSaved(p, s) == RaceStep(p, "save", "done", procs[p].am, s.disk, s.result)

RaceSave(p) ==
    \E io \in IOs : RaceSaved(p, save(procs[p].am, disk, RacePath, io))

NextRace ==
    \/ \E p \in Procs : RaceLoad(p)
    \/ \E p \in Procs : RaceUseradd(p)
    \/ \E p \in Procs : RaceSave(p)

SpecRace == InitRace /\ [][NextRace]_vars

(***************************************************************************)
(* Properties                                                              *)
(***************************************************************************)
\* the AccountManager the last operation started from
pre == last.am

\* the file the last load_data read
Loaded == last.disk[expanduser(last.args.data_path)]

\* C1: the active identifier is unset or a key of accounts, in every state
C1_ActiveIsRegistered ==
    am.who = None \/ Has(am.accounts, am.who)

\* the active user was deleted while another account stays registered
C1_Witness ==
    /\ last.op = "userdel"
    /\ pre.who = last.args.user_id
    /\ Has(pre.accounts, pre.who)
    /\ KeySet(am.accounts) # {}
    /\ am.who = None

\* the operation before the last completed a write of the Registry to a
\* file (a save, or the save that ends a load_data), the last operation was
\* a load_data of that file, and the Registry saved holds no legacy-shaped
\* account
SavedThenLoaded ==
    /\ last.op = "load_data"
    /\ last.wrote_before = expanduser(last.args.data_path)
    /\ \A k \in KeySet(pre.accounts) : pre.accounts.at[k].user.products # "dict"

\* C2 as stated: save to a path and load of that path returns the accounts,
\* the active identifier and the storage path of the Registry saved
C2_RoundTripExact ==
    SavedThenLoaded
        => /\ am.accounts = pre.accounts
           /\ am.who = pre.who
           /\ am.data_path = pre.data_path

\* C2 amended: when the re-save of the load succeeds, accounts and active
\* identifier are those saved, and the storage path is the saved one if it
\* is set and names an existing file, the default path otherwise
C2_RoundTrip ==
    (SavedThenLoaded /\ last.raised = "ok")
        => /\ am.accounts = pre.accounts
           /\ am.who = pre.who
           /\ am.data_path =
                  IF pre.data_path # NoneStr /\ exists(last.disk, pre.data_path)
                  THEN pre.data_path
                  ELSE ACCOUNT_DATA_PATH

\* a Registry with an active account and a storage path was loaded back
\* from the file it had been saved to, and came back as it was
C2_Witness ==
    /\ SavedThenLoaded
    /\ last.raised = "ok"
    /\ Has(pre.accounts, pre.who)
    /\ pre.data_path # NoneStr
    /\ am = pre

\* number of occurrences of x in the sequence q
Count(q, x) == Cardinality({i \in 1 .. Len(q) : q[i] = x})

\* C3, in its most favourable cases (the identity client answers every
\* call, the re-save succeeds and goes to the file that was loaded): a load
\* of a file with legacy-shaped accounts fetches each of them exactly once
\* and leaves it current-shaped, and a load of the same path right after
\* fetches nothing
C3_MigratesOnce ==
    (/\ last.op = "load_data"
     /\ Loaded.kind = "pickle"
     /\ LegacyKeys(Loaded) # {}
     /\ last.args.net = 0
     /\ last.raised = "ok"
     /\ am.data_path = expanduser(last.args.data_path))
        => /\ \A a \in LegacyKeys(Loaded) :
                  /\ Count(last.fetches, a) = 1
                  /\ Has(am.accounts, a)
                  /\ am.accounts.at[a].user.products = "list"
           /\ \A io \in IOs :
                  load_data(disk, last.args.data_path, 0, io).fetches = <<>>

\* C4: load_data of a path whose file is missing or cannot be unpickled
\* returns normally, with an AccountManager that has no accounts, no active
\* identifier and the (user-expanded) path as its storage path
C4_LoadNeverFails ==
    (last.op = "load_data" /\ Loaded.kind # "pickle")
        => /\ last.result = "ok"
           /\ last.ret = <<am>>
           /\ am.accounts = EmptyDict
           /\ am.who = None
           /\ am.data_path = expanduser(last.args.data_path)

\* a process that had accounts loaded a file of garbage
C4_Witness ==
    /\ last.op = "load_data"
    /\ Loaded.kind = "garbage"
    /\ KeySet(pre.accounts) # {}
    /\ last.raised = "UnpicklingError"
    /\ KeySet(am.accounts) = {}

\* C5 as stated: a failure of the identity client during any refresh reaches
\* the caller of the operation
C5_FetchFailurePropagates ==
    last.raised = "NetworkError" => last.result = "NetworkError"

\* C5 amended: a failure of the identity client reaches the caller of a
\* direct update; during the migration inside load_data it is caught, and
\* load_data returns an empty AccountManager on the loaded path
C5_FetchFailure ==
    last.raised = "NetworkError"
        => \/ /\ last.op = "update"
              /\ last.result = "NetworkError"
           \/ /\ last.op = "load_data"
              /\ last.result = "ok"
              /\ am = AccountManager(expanduser(last.args.data_path))

\* the identity client failed during the migration of a file with accounts
C5_Witness ==
    /\ last.op = "load_data"
    /\ last.raised = "NetworkError"
    /\ LegacyKeys(Loaded) # {}
    /\ last.fetches # <<>>

\* C6 as stated: an I/O failure of any save reaches the caller of the
\* operation
C6_SaveFailurePropagates ==
    last.raised = "IOError" => last.result = "IOError"

\* C6 amended: an I/O failure reaches the caller of a direct save; in the
\* save that ends the migration inside load_data it is caught, and load_data
\* returns an empty AccountManager on the loaded path
C6_SaveFailure ==
    last.raised = "IOError"
        => \/ /\ last.op = "save"
              /\ last.result = "IOError"
           \/ /\ last.op = "load_data"
              /\ last.result = "ok"
              /\ am = AccountManager(expanduser(last.args.data_path))

\* the save of the migration failed after the file had been unpickled
C6_Witness ==
    /\ last.op = "load_data"
    /\ last.raised = "IOError"
    /\ Loaded.kind = "pickle"
    /\ last.saves = 1

\* C7: set_encrypt_key changes nothing but encrypt_key and salt of the active
\* account: its user and pwd, every other account, the keys, the active
\* identifier and the storage path stay as they were
C7_SetEncryptionFrame ==
    last.op = "set_encrypt_key"
        => /\ am.who = pre.who
           /\ am.data_path = pre.data_path
           /\ am.accounts.keys = pre.accounts.keys
           /\ \A k \in KeySet(pre.accounts) :
                  IF k = pre.who
                  THEN /\ am.accounts.at[k].user = pre.accounts.at[k].user
                       /\ am.accounts.at[k].pwd = pre.accounts.at[k].pwd
                  ELSE am.accounts.at[k] = pre.accounts.at[k]

\* the key and the salt of the active account changed while another account
\* was registered
C7_Witness ==
    /\ last.op = "set_encrypt_key"
    /\ last.result = "ok"
    /\ Cardinality(KeySet(am.accounts)) >= 2
    /\ am.accounts.at[am.who].encrypt_key # pre.accounts.at[am.who].encrypt_key
    /\ am.accounts.at[am.who].salt # pre.accounts.at[am.who].salt

\* the account update is asked for: the given id, or the active one
RefreshTarget ==
    IF last.args.user_id = None THEN pre.who ELSE last.args.user_id

\* C8: update of an unregistered target changes nothing; otherwise only the
\* user of the target account is replaced, by the fetched record, and its
\* pwd, encrypt_key and salt are kept
C8_RefreshTarget ==
    last.op = "update"
        => IF RefreshTarget = None \/ ~Has(pre.accounts, RefreshTarget)
           THEN am = pre
           ELSE /\ am.who = pre.who
                /\ am.data_path = pre.data_path
                /\ am.accounts.keys = pre.accounts.keys
                /\ \A k \in KeySet(pre.accounts) \ {RefreshTarget} :
                       am.accounts.at[k] = pre.accounts.at[k]
                /\ am.accounts.at[RefreshTarget].pwd = pre.accounts.at[RefreshTarget].pwd
                /\ am.accounts.at[RefreshTarget].encrypt_key
                       = pre.accounts.at[RefreshTarget].encrypt_key
                /\ am.accounts.at[RefreshTarget].salt = pre.accounts.at[RefreshTarget].salt
                /\ last.result = "ok" =>
                       \E a \in Answers \ {"fail"} :
                           am.accounts.at[RefreshTarget].user
                               = user_info(pre.accounts.at[RefreshTarget], a)
                /\ last.result # "ok" => am = pre

\* C9: set_encrypt_key, cd and pwd fail with NoActiveIdentity exactly when
\* the active identifier is unset or not a key of accounts, a failing call
\* changes nothing, and every other call succeeds on the active account
C9_NoActiveIdentity ==
    last.op \in {"set_encrypt_key", "cd", "pwd"}
        => LET stale == pre.who = None \/ ~Has(pre.accounts, pre.who)
           IN /\ (last.result = "NoActiveIdentity") <=> stale
              /\ last.result = "NoActiveIdentity" => am = pre
              /\ ~stale =>
                     /\ last.result = "ok"
                     /\ last.op = "set_encrypt_key" =>
                            /\ am.accounts.at[pre.who].encrypt_key = last.args.encrypt_key
                            /\ am.accounts.at[pre.who].salt = last.args.salt
                     /\ last.op = "cd" =>
                            am.accounts.at[pre.who].pwd
                                = join_path(pre.accounts.at[pre.who].pwd, last.args.remotedir)
                     /\ last.op = "pwd" => last.ret = <<pre.accounts.at[pre.who].pwd>>

\* C10: who(id) returns the account registered under id, who() the account
\* registered under the active identifier, nothing if there is none; who
\* never fails and never changes the Registry
C10_Who ==
    last.op = "who"
        => LET id == IF last.args.user_id = None THEN pre.who ELSE last.args.user_id
           IN /\ last.result = "ok"
              /\ am = pre
              /\ last.ret = IF id # None /\ Has(pre.accounts, id)
                            THEN <<pre.accounts.at[id]>> ELSE <<>>

\* C11: su(id) fails with UnknownIdentity when id is not a key of accounts
\* and changes nothing; otherwise it succeeds, the active identifier is id
\* and nothing else changes
C11_SwitchActive ==
    last.op = "su"
        => IF Has(pre.accounts, last.args.user_id)
           THEN /\ last.result = "ok"
                /\ am = [pre EXCEPT !.who = last.args.user_id]
           ELSE /\ last.result = "UnknownIdentity"
                /\ am = pre

\* the active identifier moved from one registered account to another
C11_Witness ==
    /\ last.op = "su"
    /\ last.result = "ok"
    /\ Has(pre.accounts, pre.who)
    /\ pre.who # last.args.user_id
    /\ am.who = last.args.user_id

\* C12: userdel(id) never fails; afterwards id is not a key of accounts and
\* every other account is as it was, under the keys in their order; if id
\* was the active identifier who() returns nothing, otherwise the active
\* identifier is unchanged
C12_RemoveUser ==
    last.op = "userdel"
        => LET id == last.args.user_id
           IN /\ last.result = "ok"
              /\ ~Has(am.accounts, id)
              /\ am.accounts.keys = SelectSeq(pre.accounts.keys, LAMBDA k : k # id)
              /\ \A k \in KeySet(pre.accounts) \ {id} :
                     am.accounts.at[k] = pre.accounts.at[k]
              /\ am.data_path = pre.data_path
              /\ IF id = pre.who
                 THEN who(am, None).ret = <<>>
                 ELSE am.who = pre.who

\* a registered account that is not the active one was removed, and the
\* active account stays
C12_Witness ==
    /\ last.op = "userdel"
    /\ Has(pre.accounts, last.args.user_id)
    /\ Has(pre.accounts, pre.who)
    /\ pre.who # last.args.user_id
    /\ am.who = pre.who
    /\ KeySet(am.accounts) = {pre.who}

\* C13: useradd(user) never fails; afterwards user.user_id is a key of
\* accounts exactly once, its account holds user, pwd "/" and no encrypt_key
\* and salt, whether or not the id was registered before; every other
\* account, the active identifier and the storage path are unchanged
C13_AddUser ==
    last.op = "useradd"
        => LET user == last.args.user
               id == user.user_id
           IN /\ last.result = "ok"
              /\ Count(am.accounts.keys, id) = 1
              /\ KeySet(am.accounts) = KeySet(pre.accounts) \cup {id}
              /\ am.accounts.at[id] =
                     [user |-> user, pwd |-> <<"/">>, encrypt_key |-> NoneStr,
                      salt |-> NoneStr]
              /\ \A k \in KeySet(pre.accounts) \ {id} :
                     am.accounts.at[k] = pre.accounts.at[k]
              /\ am.who = pre.who
              /\ am.data_path = pre.data_path

\* the active account had left the root directory and set an encryption key;
\* its identifier was added again, and it is active with a fresh account
C13_Witness ==
    /\ last.op = "useradd"
    /\ pre.who = last.args.user.user_id
    /\ Has(pre.accounts, pre.who)
    /\ pre.accounts.at[pre.who].pwd # <<"/">>
    /\ pre.accounts.at[pre.who].encrypt_key # NoneStr
    /\ am.who = pre.who
    /\ am.accounts.at[am.who].pwd = <<"/">>
    /\ am.accounts.at[am.who].encrypt_key = NoneStr

\* the path a save resolves: its argument if given, the stored path if not
SaveTarget ==
    IF last.args.data_path # NoneStr THEN last.args.data_path ELSE pre.data_path

\* C14: save fails with NoStoragePath exactly when it has no argument and
\* the Registry no stored path, and then writes nothing; a save that returns
\* leaves, in the file at the (user-expanded) resolved path, the accounts,
\* the active identifier and the storage path of the Registry, and no other
\* file changed; the only other failure is that of the write itself; the
\* Registry in memory, its storage path included, is never changed
C14_Save ==
    last.op = "save"
        => /\ am = pre
           /\ (last.result = "NoStoragePath") <=> (SaveTarget = NoneStr)
           /\ last.result = "NoStoragePath" => (disk = last.disk /\ last.saves = 0)
           /\ last.result = "ok" =>
                  /\ disk[expanduser(SaveTarget)].kind = "pickle"
                  /\ disk[expanduser(SaveTarget)].am.accounts = pre.accounts
                  /\ disk[expanduser(SaveTarget)].am.who = pre.who
                  /\ disk[expanduser(SaveTarget)].am.data_path = pre.data_path
                  /\ \A f \in Files \ {expanduser(SaveTarget)} : disk[f] = last.disk[f]
           /\ last.result \in {"ok", "NoStoragePath", "IOError"}

\* a Registry with accounts and a stored path was saved to another path,
\* given as the argument
C14_Witness ==
    /\ last.op = "save"
    /\ last.result = "ok"
    /\ KeySet(pre.accounts) # {}
    /\ pre.data_path # NoneStr
    /\ last.args.data_path # NoneStr
    /\ expanduser(last.args.data_path) # expanduser(pre.data_path)
    /\ disk[expanduser(last.args.data_path)].am = am
    /\ disk[expanduser(pre.data_path)] = last.disk[expanduser(pre.data_path)]

\* C15: cd (on the active account) and update (on the account it is asked
\* for: the given id, or the active one) leave every other account, the
\* keys and their order, the active identifier and the storage path as they
\* were
C15_OthersUnchanged ==
    last.op \in {"cd", "update"}
        => LET target == IF last.op = "cd" THEN pre.who ELSE RefreshTarget
           IN /\ am.accounts.keys = pre.accounts.keys
              /\ am.who = pre.who
              /\ am.data_path = pre.data_path
              /\ \A k \in KeySet(pre.accounts) \ {target} :
                     am.accounts.at[k] = pre.accounts.at[k]

\* C16: in every state the pwd of every account is an absolute path: it
\* begins with "/"
C16_WorkingDirAbsolute ==
    \A k \in KeySet(am.accounts) : IsAbs(am.accounts.at[k].pwd)

\* in a Registry built by useradd and su alone (no file was loaded), cd
\* with the relative path ".." at the root directory left the pwd at "/"
C16_Witness ==
    /\ last.op = "cd"
    /\ last.result = "ok"
    /\ pre.data_path = NoneStr
    /\ pre.accounts.at[pre.who].pwd = <<"/">>
    /\ last.args.remotedir = <<".", ".">>
    /\ am.accounts.at[am.who].pwd = <<"/">>

\* C17: a migration pass (the one a load_data of a pickled file runs) that
\* completes has made exactly one save, and a pass ended by a failing
\* refresh has made none (the save comes after the refreshes), whether or
\* not an account was legacy-shaped; a second pass on the Registry the first
\* one leaves makes no fetch and one save
C17_MigrationPass ==
    (last.op = "load_data" /\ Loaded.kind = "pickle")
        => /\ last.raised = "ok" => last.saves = 1
           /\ last.raised = "NetworkError" => last.saves = 0
           /\ last.raised = "ok" =>
                  \A io \in IOs :
                      /\ _compat_v0_5_9(am, disk, 0, io).fetches = <<>>
                      /\ _compat_v0_5_9(am, disk, 0, io).saves = 1

\* C18: after a load_data whose unpickling and migration succeed, the
\* storage path of the AccountManager returned is the one recorded in the
\* file if that is set and names an existing file, and the default path
\* otherwise; the save of the migration wrote the AccountManager returned
\* to the file at that storage path
C18_PathBackfill ==
    (last.op = "load_data" /\ Loaded.kind = "pickle" /\ last.raised = "ok")
        => /\ am.data_path =
                  IF Loaded.am.data_path # NoneStr
                     /\ exists(last.disk, Loaded.am.data_path)
                  THEN Loaded.am.data_path
                  ELSE ACCOUNT_DATA_PATH
           /\ last.wrote = expanduser(am.data_path)
           /\ disk[expanduser(am.data_path)] = [kind |-> "pickle", am |-> am]
           /\ \A f \in Files \ {expanduser(am.data_path)} : disk[f] = last.disk[f]

\* the file loaded records no storage path: the AccountManager returned is
\* bound to the default path and was written there, not to the file loaded
C18_Witness ==
    /\ last.op = "load_data"
    /\ Loaded.kind = "pickle"
    /\ last.raised = "ok"
    /\ Loaded.am.data_path = NoneStr
    /\ am.data_path = ACCOUNT_DATA_PATH
    /\ expanduser(last.args.data_path) # ACCOUNT_DATA_PATH
    /\ disk[ACCOUNT_DATA_PATH].kind = "pickle"
    /\ disk[expanduser(last.args.data_path)] = Loaded

\* C19: in every state every account is stored under the key that is the
\* user_id of its own user
C19_KeyIsIdentifier ==
    \A k \in KeySet(am.accounts) : am.accounts.at[k].user.user_id = k

\* in a Registry built by useradd and su alone (no file was loaded), update
\* fetched a newer record and stored it under the key of its account
C19_Witness ==
    /\ last.op = "update"
    /\ last.result = "ok"
    /\ pre.data_path = NoneStr
    /\ Len(last.fetches) = 1
    /\ am.accounts.at[last.fetches[1]].user # pre.accounts.at[last.fetches[1]].user
    /\ am.accounts.at[last.fetches[1]].user.user_id = last.fetches[1]

\* the position in history of the op of process p
At(p, op) ==
    CHOOSE i \in 1 .. Len(history) : history[i].proc = p /\ history[i].op = op

\* both processes are done, both saves completed, and each process loaded
\* before either of them saved
BothLoadedBeforeSaves ==
    /\ \A p \in Procs : procs[p].pc = "done"
    /\ \A p \in Procs : history[At(p, "save")].result = "ok"
    /\ \A p, q \in Procs : At(p, "load_data") < At(q, "save")

\* C20: when both processes load before either saves, the file they save to
\* ends as the later saver's AccountManager alone: it holds the account that
\* process added and not the account the earlier saver added
C20_LaterSaveClobbers ==
    BothLoadedBeforeSaves
        => \A w, e \in Procs :
               At(e, "save") < At(w, "save")
                   => /\ disk[expanduser(RacePath)] = [kind |-> "pickle", am |-> procs[w].am]
                      /\ Has(disk[expanduser(RacePath)].am.accounts, RaceUser(w).user_id)
                      /\ ~Has(disk[expanduser(RacePath)].am.accounts, RaceUser(e).user_id)

\* the interleaving load, load, useradd, useradd, save, save happened on a
\* file that held accounts: the file ends with one of the two added
\* accounts, while the first saver still holds its own in memory
C20_Witness ==
    /\ BothLoadedBeforeSaves
    /\ At(1, "save") < At(2, "save")
    /\ disk[expanduser(RacePath)].kind = "pickle"
    /\ Cardinality({p \in Procs :
           Has(disk[expanduser(RacePath)].am.accounts, RaceUser(p).user_id)}) = 1
    /\ Cardinality(KeySet(disk[expanduser(RacePath)].am.accounts)) > 1
    /\ Has(procs[1].am.accounts, RaceUser(1).user_id)

====
